---- MODULE Spec2Model ----
(***************************************************************************)
(* DBSentinel (src/src/index.ts): an asynchronous query-offload            *)
(* middleware.  Clients submit SELECT queries; admitted queries are        *)
(* queued (Bull), executed by a bounded number of concurrent handlers,     *)
(* materialised into a per-job result table, announced by an event, and    *)
(* reclaimed by a periodic cleanup sweep.                                  *)
(*                                                                         *)
(* Strings are sequences of one-character strings, so that trim,           *)
(* toUpperCase, startsWith, includes and the \b(...)\b regular expression  *)
(* are computed character by character.                                    *)
(***************************************************************************)
EXTENDS Integers, Sequences, FiniteSets, TLC

\* ------------------------------------------------------------------ bounds
\* Job ids ever generated in one run (caps crypto.randomUUID calls).
MaxJobs == 2
\* The same, where calls of createQueryJob race.
MaxRaceJobs == 3
\* The same, where initialize and shutdown are called at any time.
MaxLifecycleJobs == 1
\* Rows a data fetch returns, at most.
MaxRows == 2
\* The clock (hours) runs from 0 to MaxTime.
MaxTime == 2
\* Largest tableTTLHours / maxQueueSize / concurrency a configuration sets.
MaxTTL == 1
MaxQueueSize == 1
MaxConcurrency == 2

\* ------------------------------------------------------------- characters
LowerCase == <<"a","b","c","d","e","f","g","h","i","j","k","l","m",
               "n","o","p","q","r","s","t","u","v","w","x","y","z">>
UpperCase == <<"A","B","C","D","E","F","G","H","I","J","K","L","M",
               "N","O","P","Q","R","S","T","U","V","W","X","Y","Z">>
Digits == {"0","1","2","3","4","5","6","7","8","9"}
WhiteSpace == {" ", "\t", "\n"}

Range(s) == {s[i] : i \in DOMAIN s}

\* String.prototype.toUpperCase on one character.
UpperChar(c) ==
  IF \E i \in DOMAIN LowerCase : LowerCase[i] = c
  THEN UpperCase[CHOOSE i \in DOMAIN LowerCase : LowerCase[i] = c]
  ELSE c

toUpperCase(s) == [i \in DOMAIN s |-> UpperChar(s[i])]

\* String.prototype.trim: drops leading and trailing white space.
trim(s) ==
  LET keep == {i \in DOMAIN s : s[i] \notin WhiteSpace}
  IN IF keep = {} THEN <<>>
     ELSE LET lo == CHOOSE i \in keep : \A k \in keep : i <= k
              hi == CHOOSE i \in keep : \A k \in keep : i >= k
          IN SubSeq(s, lo, hi)

startsWith(s, p) == Len(s) >= Len(p) /\ SubSeq(s, 1, Len(p)) = p

includes(s, c) == \E i \in DOMAIN s : s[i] = c

\* \w of a JavaScript regular expression: [A-Za-z0-9_].
IsWordChar(c) ==
  c \in Range(LowerCase) \cup Range(UpperCase) \cup Digits \cup {"_"}

\* \b at the gap before position i (1..Len(s)+1): exactly one side is a word
\* character; outside the string counts as a non-word character.
WordBoundary(s, i) ==
  LET before == i > 1 /\ IsWordChar(s[i - 1])
      after == i <= Len(s) /\ IsWordChar(s[i])
  IN before # after

ForbiddenWords ==
  { <<"D","R","O","P">>, <<"U","P","D","A","T","E">>,
    <<"D","E","L","E","T","E">>, <<"I","N","S","E","R","T">>,
    <<"A","L","T","E","R">> }

\* Substring matching (ignoring case) without the \b anchors: a mutant of the
\* regular expression.
forbiddenRegexNoBoundary(query) ==
  \E w \in ForbiddenWords :
    \E i \in 1..(Len(query) - Len(w) + 1) :
      toUpperCase(SubSeq(query, i, i + Len(w) - 1)) = w

\* /\b(DROP|UPDATE|DELETE|INSERT|ALTER)\b/i .test(query)
forbiddenRegexTest(query) ==
  \E w \in ForbiddenWords :
    \E i \in 1..(Len(query) - Len(w) + 1) :
      /\ toUpperCase(SubSeq(query, i, i + Len(w) - 1)) = w
      /\ WordBoundary(query, i)
      /\ WordBoundary(query, i + Len(w))

SelectPrefix == <<"S","E","L","E","C","T"," ">>

\* A mutant of validateSelectQuery: the semicolon test comes first.
validateSemicolonFirst(query) ==
  LET normalized == toUpperCase(trim(query))
  IN IF includes(normalized, ";") THEN "Semicolon"
     ELSE IF ~startsWith(normalized, SelectPrefix) THEN "NotSelect"
     ELSE IF forbiddenRegexTest(query) THEN "Forbidden"
     ELSE "valid"

\* validateSelectQuery: the error it throws, or "valid".
validateSelectQuery(query) ==
  LET normalized == toUpperCase(trim(query))
  IN IF ~startsWith(normalized, SelectPrefix) THEN "NotSelect"
     ELSE IF includes(normalized, ";") THEN "Semicolon"
     ELSE IF forbiddenRegexTest(query) THEN "Forbidden"
     ELSE "valid"

\* ------------------------------------------------------------ type mapper
\* A mutant of the mapper: case 1184 is missing.
mapPostgresTypeNoTimestamptz(pgTypeId) ==
  CASE pgTypeId \in {20, 21, 23} -> "INTEGER"
    [] pgTypeId \in {700, 701} -> "DOUBLE PRECISION"
    [] pgTypeId = 1700 -> "NUMERIC"
    [] pgTypeId = 16 -> "BOOLEAN"
    [] pgTypeId = 1082 -> "DATE"
    [] pgTypeId = 1114 -> "TIMESTAMP"
    [] pgTypeId \in {114, 3802} -> "JSONB"
    [] OTHER -> "TEXT"

mapPostgresType(pgTypeId) ==
  CASE pgTypeId \in {20, 21, 23} -> "INTEGER"
    [] pgTypeId \in {700, 701} -> "DOUBLE PRECISION"
    [] pgTypeId = 1700 -> "NUMERIC"
    [] pgTypeId = 16 -> "BOOLEAN"
    [] pgTypeId = 1082 -> "DATE"
    [] pgTypeId \in {1114, 1184} -> "TIMESTAMP"
    [] pgTypeId \in {114, 3802} -> "JSONB"
    [] OTHER -> "TEXT"

\* ------------------------------------------------- job ids and table names
HexDigits == <<"0","1","2","3","4","5","6","7","8","9","a","b","c","d","e","f">>

\* crypto.randomUUID(): the n-th identifier generated, n >= 1.  Identifiers
\* are 36 characters, five groups of 8, 4, 4, 4 and 12 hexadecimal digits
\* separated by "-" (version 4, variant 8); the first group numbers the call.
randomUUID(n) ==
  << "0","0","0","0","0","0", HexDigits[((n \div 16) % 16) + 1], HexDigits[(n % 16) + 1], "-",
     "0","0","0","0", "-", "4","0","0","0", "-", "8","0","0","0", "-",
     "0","0","0","0","0","0","0","0","0","0","0","0" >>

\* jobId.replace(/-/g, '_')
replaceDashes(s) == [i \in DOMAIN s |-> IF s[i] = "-" THEN "_" ELSE s[i]]

TablePrefix ==
  <<"q","u","e","r","y","_","r","e","s","u","l","t","s","_">>

\* A mutant of the derivation: only the last group of the id is used.
tableNameLastGroup(jobId) == TablePrefix \o SubSeq(jobId, 25, 36)

\* `query_results_${jobId.replace(/-/g, '_')}`
tableNameFor(jobId) == TablePrefix \o replaceDashes(jobId)

JobNumbers == 1..(IF MaxRaceJobs > MaxJobs THEN MaxRaceJobs ELSE MaxJobs)
JobId == [n \in JobNumbers |-> randomUUID(n)]
TableName == [n \in JobNumbers |-> tableNameFor(JobId[n])]

\* ------------------------------------------------------------ row values
\* The native type ids a probed column has in the model (one column per
\* query): int4 and jsonb.
TypeIds == {23, 3802}

\* What node-postgres hands to JavaScript for a value of a column of that type.
JsValue(typeId) ==
  IF typeId = 23 THEN [kind |-> "number", num |-> 7]
  ELSE [kind |-> "object", num |-> 0]

DigitChar(d) == HexDigits[d + 1]

RECURSIVE ToDecimal(_)
ToDecimal(n) ==
  IF n < 10 THEN <<DigitChar(n)>> ELSE ToDecimal(n \div 10) \o <<DigitChar(n % 10)>>

ObjectObject ==
  <<"[","o","b","j","e","c","t"," ","O","b","j","e","c","t","]">>

\* String(value) for the values of the model.
String(v) == IF v.kind = "number" THEN ToDecimal(v.num) ELSE ObjectObject

DigitValue(c) == (CHOOSE i \in 1..10 : HexDigits[i] = c) - 1

RECURSIVE ParseDecimal(_)
ParseDecimal(s) ==
  IF Len(s) = 1 THEN DigitValue(s[1])
  ELSE 10 * ParseDecimal(SubSeq(s, 1, Len(s) - 1)) + DigitValue(s[Len(s)])

IsDecimal(s) == s # <<>> /\ \A i \in DOMAIN s : s[i] \in Digits

\* The database's conversion of a text parameter to the column's type: the
\* stored value, or "error" (invalid input syntax).
CastText(columnType, text) ==
  IF columnType = "INTEGER"
  THEN IF IsDecimal(text) THEN [kind |-> "number", num |-> ParseDecimal(text)]
       ELSE [kind |-> "error", num |-> 0]
  ELSE IF columnType = "JSONB"
  THEN IF IsDecimal(text) THEN [kind |-> "number", num |-> ParseDecimal(text)]
       ELSE [kind |-> "error", num |-> 0]
  ELSE [kind |-> "error", num |-> 0]

\* The result sets a data fetch can return for a column of the given type.
RowSets(typeId) == {[i \in 1..n |-> JsValue(typeId)] : n \in 0..MaxRows}

\* ---------------------------------------------------------------- inputs
\* The queries submitted: an optional white-space lead, a head and a body.
QueryLeads == { <<>>, <<"\n"," ">> }
QueryHeads ==
  { <<"S","E","L","E","C","T"," ">>,
    <<"s","e","l","e","c","t"," ">>,
    <<"S","e","L","e","C","t"," ">>,
    <<"S","E","L","E","C","T","\t">>,
    <<"S","E","L","E","C","T">>,
    <<"D","R","O","P"," ">>,
    <<"s","e","l","e","c","t","e","d"," ">>,
    <<>> }
QueryBodies ==
  { <<>>,
    <<"1">>,
    <<"1",";">>,
    <<";">>,
    <<"d","r","o","p">>,
    <<"a"," ","D","R","O","P">>,
    <<"u","p","d","a","t","e","d","_","a","t">>,
    <<"x"," ","U","P","D","A","T","E"," ","y">>,
    <<"D","e","L","e","T","e">>,
    <<"i","n","s","e","r","t","_","i","d">>,
    <<"(","a","l","t","e","r",")">>,
    <<"x","-","i","n","s","e","r","t">>,
    <<"a","l","t","e","r","1">> }
Queries == {l \o h \o b : l \in QueryLeads, h \in QueryHeads, b \in QueryBodies}

\* The queries the full specification submits: an accepted and a rejected one.
SampleQueries ==
  { <<"S","E","L","E","C","T"," ","1">>,
    <<"D","R","O","P"," ","1">> }

\* validateSelectQuery, tabulated over the queries submitted.
Validation == [q \in Queries \cup SampleQueries |-> validateSelectQuery(q)]

\* The configurations handed to initialize.
Configs ==
  [ concurrency : 1..MaxConcurrency,
    maxQueueSize : 1..MaxQueueSize,
    tableTTLHours : 0..MaxTTL ]

\* Callers of createQueryJob whose calls can be in flight together (Callers),
\* the callers of the specifications in which calls do not overlap
\* (Submitters), and cleanup sweeps that can be in progress.
NumCallers == 2
NumSubmitters == 1
NumSweepers == 1
NumOverlapping == 2
Callers == 1..NumCallers
Submitters == 1..NumSubmitters
Sweepers == 1..NumSweepers
\* The sweeps of the specification in which the timer fires during a sweep.
OverlappingSweepers == 1..NumOverlapping
AllSweepers == Sweepers \cup OverlappingSweepers

\* ----------------------------------------------------------------- state
VARIABLES
  initialized,   \* this.initialized
  concurrency,   \* this.concurrency
  maxQueueSize,  \* this.maxQueueSize
  tableTTLHours, \* this.tableTTLHours
  cleanupTimer,  \* this.cleanupTimer is set
  lastInit,      \* how the last call of initialize ended
  created,       \* pools, queues, processors and timers created so far
  shut,          \* where shutdown is, and how its last call ended
  queueState,    \* the Bull queue: "none", "open", "closing", "closed"
  poolState,     \* the pg pool: "none", "open", "ending", "ended"
  waiting,       \* Bull's wait list: job numbers, oldest first
  nextJob,       \* identifiers generated so far
  sub,           \* per caller of createQueryJob: where the call is
  ret,           \* per caller: how its last call ended ("ok" or the error)
  job,           \* per job: where handleJob is, and its local variables
  acquired,      \* per job: clients its handler got from dbPool.connect()
  released,      \* per job: calls of client.release() by its handler
  events,        \* per job: the events emitted, in order
  metaTable,     \* the table job_metadata exists
  metadata,      \* rows of job_metadata, by job_id
  catalog,       \* the result tables of the database, by name
  now,           \* the database clock, in hours
  sweep          \* per cleanup sweep: where cleanupOldTables is

vars == << initialized, concurrency, maxQueueSize, tableTTLHours, cleanupTimer,
           lastInit, created, shut, queueState, poolState,
           waiting, nextJob, sub, ret, job, acquired, released, events,
           metaTable, metadata, catalog, now, sweep >>

configVars == << initialized, concurrency, maxQueueSize, tableTTLHours, cleanupTimer,
                 lastInit, created, shut, queueState, poolState >>
queueVars == << waiting, nextJob >>
dbVars == << metaTable, metadata, catalog >>
clientVars == << acquired, released >>

DefaultConcurrency == 1
DefaultMaxQueueSize == 100
DefaultTableTTLHours == 24

\* overlapped records that another call of createQueryJob was in flight at
\* some moment between this call's getWaitingCount and its end.
IdleCall == [pc |-> "idle", waitingCount |-> 0, query |-> <<>>, overlapped |-> FALSE]
NoJob == [pc |-> "none", typeId |-> 0, rows |-> <<>>, idx |-> 0, tableName |-> <<>>]
IdleSweep == [pc |-> "idle", rows |-> <<>>, idx |-> 0, ok |-> {}]
NothingCreated == [pools |-> 0, queues |-> 0, processors |-> 0, timers |-> 0]
IdleShutdown == [pc |-> "idle", ret |-> "none"]

Init ==
  /\ initialized = FALSE
  /\ concurrency = DefaultConcurrency
  /\ maxQueueSize = DefaultMaxQueueSize
  /\ tableTTLHours = DefaultTableTTLHours
  /\ cleanupTimer = FALSE
  /\ lastInit = "none"
  /\ created = NothingCreated
  /\ shut = IdleShutdown
  /\ queueState = "none"
  /\ poolState = "none"
  /\ waiting = <<>>
  /\ nextJob = 0
  /\ sub = [s \in Callers |-> IdleCall]
  /\ ret = [s \in Callers |-> "none"]
  /\ job = [j \in JobNumbers |-> NoJob]
  /\ acquired = [j \in JobNumbers |-> 0]
  /\ released = [j \in JobNumbers |-> 0]
  /\ events = [j \in JobNumbers |-> <<>>]
  /\ metaTable = FALSE
  /\ metadata = << >>
  /\ catalog = << >>
  /\ now = 0
  /\ sweep = [k \in AllSweepers |-> IdleSweep]

\* ------------------------------------------------------------- lifecycle
\* A mutant of the guard of initialize: the flag is not looked at.
NeverInitialized == FALSE

\* if (this.initialized)
AlreadyInitialized == initialized

\* initialize(config): throws when the instance was initialized before;
\* otherwise sets the flag, creates the pool and the queue, takes the limits
\* from the configuration, registers the queue processor and starts the
\* cleanup timer.
Initialize(config) ==
  /\ IF AlreadyInitialized
     THEN /\ lastInit' = "AlreadyInitialized"
          /\ UNCHANGED << initialized, concurrency, maxQueueSize, tableTTLHours,
                          cleanupTimer, created, queueState, poolState >>
     ELSE /\ lastInit' = "ok"
          /\ initialized' = TRUE
          /\ poolState' = "open"
          /\ queueState' = "open"
          /\ concurrency' = config.concurrency
          /\ maxQueueSize' = config.maxQueueSize
          /\ tableTTLHours' = config.tableTTLHours
          /\ cleanupTimer' = TRUE
          /\ created' = [pools |-> created.pools + 1, queues |-> created.queues + 1,
                         processors |-> created.processors + 1,
                         timers |-> created.timers + 1]
  /\ UNCHANGED << shut, queueVars, sub, ret, job, clientVars, events, dbVars, now, sweep >>

\* The first call of initialize on the instance.
InitializeOnce(config) == ~initialized /\ Initialize(config)

\* A mutant of clearInterval: the timer is left running.
KeepInterval == cleanupTimer

\* if (this.cleanupTimer) { clearInterval(this.cleanupTimer); this.cleanupTimer
\* = null }: the timer after it.
ClearInterval == FALSE

\* shutdown() up to its first await: the timer is cleared and
\* queryQueue.close() is called, after which Bull hands out no further job.
\* On an instance never initialized queryQueue is undefined and the call
\* throws a TypeError with nothing done.
ShutdownStart ==
  /\ shut.pc = "idle"
  /\ IF ~initialized
     THEN /\ shut' = [pc |-> "idle", ret |-> "TypeError"]
          /\ UNCHANGED << cleanupTimer, queueState >>
     ELSE /\ cleanupTimer' = ClearInterval
          /\ queueState' = IF queueState = "open" THEN "closing" ELSE queueState
          /\ shut' = [pc |-> "closeQueue", ret |-> "pending"]
  /\ UNCHANGED << initialized, concurrency, maxQueueSize, tableTTLHours, lastInit,
                  created, poolState, queueVars, sub, ret, job, clientVars, events,
                  dbVars, now, sweep >>

\* ------------------------------------------------------------ submission
Returns(s, kind) ==
  /\ sub' = [sub EXCEPT ![s] = IdleCall]
  /\ ret' = [ret EXCEPT ![s] = kind]

\* createQueryJob(query) up to its first await: getWaitingCount() is answered.
\* Once the queue is closed the count is refused and the call fails; while
\* the queue is closing either can happen.
CreateQueryJobCount(s, query) ==
  /\ initialized
  /\ sub[s].pc = "idle"
  /\ \/ /\ queueState \in {"open", "closing"}
        /\ sub' = [t \in Callers |->
                     IF t = s
                     THEN [pc |-> "counted", waitingCount |-> Len(waiting), query |-> query,
                           overlapped |-> \E u \in Callers \ {s} : sub[u].pc = "counted"]
                     ELSE IF sub[t].pc = "counted" THEN [sub[t] EXCEPT !.overlapped = TRUE]
                     ELSE sub[t]]
        /\ ret' = [ret EXCEPT ![s] = "pending"]
     \/ /\ queueState \in {"closing", "closed"}
        /\ Returns(s, "QueueClosed")
  /\ UNCHANGED << configVars, queueVars, job, clientVars, events, dbVars, now, sweep >>

\* The mutant of the capacity test: > for >=.
QueueFullStrict(waitingCount) == waitingCount > maxQueueSize

\* waitingCount >= this.maxQueueSize
QueueFull(waitingCount) == waitingCount >= maxQueueSize

\* A mutant of the two tests: the query is validated before the capacity is
\* looked at.
RejectionValidationFirst(waitingCount, query) ==
  IF Validation[query] # "valid" THEN Validation[query]
  ELSE IF QueueFull(waitingCount) THEN "QueueFull"
  ELSE "valid"

\* The error createQueryJob throws before it generates an id, or "valid": the
\* capacity test, then validateSelectQuery.
Rejection(waitingCount, query) ==
  IF QueueFull(waitingCount) THEN "QueueFull" ELSE Validation[query]

\* createQueryJob after getWaitingCount: the capacity test, the validation, the
\* new id and queue.add (which can fail: 'Unable to enqueue job').  ids bounds
\* the identifiers generated in the run.
CreateQueryJobAddUpTo(s, ids) ==
  /\ sub[s].pc = "counted"
  /\ IF Rejection(sub[s].waitingCount, sub[s].query) # "valid"
     THEN /\ Returns(s, Rejection(sub[s].waitingCount, sub[s].query))
          /\ UNCHANGED << queueVars, job >>
     ELSE /\ nextJob < ids
          /\ LET n == nextJob + 1
             IN \/ /\ queueState # "closed"
                   /\ waiting' = Append(waiting, n)
                   /\ nextJob' = n
                   /\ job' = [job EXCEPT ![n].pc = "waiting"]
                   /\ Returns(s, "ok")
                \/ /\ Returns(s, "EnqueueFailed")
                   /\ UNCHANGED << queueVars, job >>
  /\ UNCHANGED << configVars, clientVars, events, dbVars, now, sweep >>

CreateQueryJobAdd(s) == CreateQueryJobAddUpTo(s, MaxJobs)

\* The same step where calls race.
CreateQueryJobAddRace(s) == CreateQueryJobAddUpTo(s, MaxRaceJobs)

\* The same step over the whole life of the instance.
CreateQueryJobAddLifecycle(s) == CreateQueryJobAddUpTo(s, MaxLifecycleJobs)

\* ---------------------------------------------------------------- worker
\* The positions of handleJob at which it holds a pool client.
ClientPcs == {"probe", "ensureMeta", "createTable", "insertMeta", "fetch", "insert", "emit"}
\* The positions at which Bull counts the job as active.
ActivePcs == ClientPcs \cup {"connect"}

Active == {j \in JobNumbers : job[j].pc \in ActivePcs}

Event(type, tableName) == [type |-> type, tableName |-> tableName]

\* A mutant of the end of the handler: a handler that threw is run again.
EndedRetry(j, pc) ==
  job' = [job EXCEPT ![j] = [NoJob EXCEPT !.pc = IF pc = "failed" THEN "connect" ELSE pc]]

\* The handler is over: its local variables are gone.
Ended(j, pc) == job' = [job EXCEPT ![j] = [NoJob EXCEPT !.pc = pc]]

\* A mutant of the finally block: the client is not given back.
ReleaseNothing(j) == UNCHANGED released

\* finally { client.release() }
Release(j) == released' = [released EXCEPT ![j] = @ + 1]

\* catch (error) { emit(job-failed); throw error } finally { client.release() }
\* Bull keeps the failed entry (removeOnFail: false) and does not run it again.
Catch(j) ==
  /\ events' = [events EXCEPT ![j] = Append(@, Event("failed", <<>>))]
  /\ Release(j)
  /\ Ended(j, "failed")

\* The step of handleJob went through: nothing is emitted or released.
Goes == UNCHANGED << events, released >>

\* A mutant of the processor's concurrency: a handler starts whatever runs.
SlotAlwaysFree == TRUE

\* A mutant of the processor: the slot of a handler that threw is not given
\* back.
SlotKeptAfterFailure ==
  Cardinality(Active \cup {j \in JobNumbers : job[j].pc = "failed"}) < concurrency

\* queryQueue.process(this.concurrency, ...): a handler may start while fewer
\* than concurrency handlers run.
SlotFree == Cardinality(Active) < concurrency

\* Bull hands the oldest waiting entry to a free handler slot; handleJob
\* starts and asks the pool for a client.
Pickup(j) ==
  /\ waiting # <<>>
  /\ j = Head(waiting)
  /\ queueState = "open"
  /\ SlotFree
  /\ waiting' = Tail(waiting)
  /\ job' = [job EXCEPT ![j].pc = "connect"]
  /\ UNCHANGED << configVars, nextJob, sub, ret, clientVars, events, dbVars, now, sweep >>

\* await this.dbPool.connect(), before the try block: when it rejects, the
\* handler rejects with nothing caught and nothing emitted.
Connect(j) ==
  /\ job[j].pc = "connect"
  /\ \/ /\ poolState = "open"
        /\ acquired' = [acquired EXCEPT ![j] = @ + 1]
        /\ job' = [job EXCEPT ![j].pc = "probe"]
     \/ /\ Ended(j, "failed")
        /\ UNCHANGED acquired
  /\ UNCHANGED << configVars, queueVars, sub, ret, released, events, dbVars, now, sweep >>

\* client.query(`${query} LIMIT 0`, params), the column having one of the
\* given native types; then tableName is derived.
ProbeWith(j, typeIds) ==
  /\ job[j].pc = "probe"
  /\ \/ /\ \E t \in typeIds :
             job' = [job EXCEPT ![j].pc = "ensureMeta", ![j].typeId = t,
                                ![j].tableName = tableNameFor(JobId[j])]
        /\ Goes
     \/ Catch(j)
  /\ UNCHANGED << configVars, queueVars, sub, ret, acquired, dbVars, now, sweep >>

Probe(j) == ProbeWith(j, TypeIds)

\* CREATE TABLE IF NOT EXISTS job_metadata (...)
EnsureMetadataTable(j) ==
  /\ job[j].pc = "ensureMeta"
  /\ \/ /\ metaTable' = TRUE
        /\ job' = [job EXCEPT ![j].pc = "createTable"]
        /\ Goes
     \/ /\ Catch(j)
        /\ UNCHANGED metaTable
  /\ UNCHANGED << configVars, queueVars, sub, ret, acquired, metadata, catalog, now, sweep >>

WithTable(cat, name, table) ==
  [n \in DOMAIN cat \cup {name} |-> IF n = name THEN table ELSE cat[n]]

\* A mutant of the DROP: it takes every result table with it.
WithoutAnyTable(cat, name) == << >>

WithoutTable(cat, name) == [n \in DOMAIN cat \ {name} |-> cat[n]]

\* A mutant of the step: the CREATE TABLE is not awaited, and does not get
\* through before the handler goes on.
CreateTableNotAwaited(j) ==
  /\ job[j].pc = "createTable"
  /\ job' = [job EXCEPT ![j].pc = "insertMeta"]
  /\ UNCHANGED << configVars, queueVars, sub, ret, clientVars, events, dbVars, now, sweep >>

\* CREATE TABLE "<tableName>" (<column> <mapped type>): fails when the name is
\* taken.
CreateTable(j) ==
  /\ job[j].pc = "createTable"
  /\ \/ /\ job[j].tableName \notin DOMAIN catalog
        /\ catalog' = WithTable(catalog, job[j].tableName,
                        [columnType |-> mapPostgresType(job[j].typeId), rows |-> <<>>])
        /\ job' = [job EXCEPT ![j].pc = "insertMeta"]
        /\ Goes
     \/ /\ Catch(j)
        /\ UNCHANGED catalog
  /\ UNCHANGED << configVars, queueVars, sub, ret, acquired, metaTable, metadata, now, sweep >>

\* INSERT INTO job_metadata (job_id, table_name) VALUES ($1, $2); created_at
\* defaults to NOW().  job_id is the primary key.
InsertMetadata(j) ==
  /\ job[j].pc = "insertMeta"
  /\ \/ /\ metaTable
        /\ j \notin DOMAIN metadata
        /\ metadata' = [n \in DOMAIN metadata \cup {j} |->
                          IF n = j THEN [table_name |-> job[j].tableName, created_at |-> now]
                          ELSE metadata[n]]
        /\ job' = [job EXCEPT ![j].pc = "fetch"]
        /\ Goes
     \/ /\ Catch(j)
        /\ UNCHANGED metadata
  /\ UNCHANGED << configVars, queueVars, sub, ret, acquired, metaTable, catalog, now, sweep >>

\* client.query(query, params): the rows; with no row the loop is skipped.
Fetch(j) ==
  /\ job[j].pc = "fetch"
  /\ \/ /\ \E rows \in RowSets(job[j].typeId) :
             job' = [job EXCEPT ![j].rows = rows,
                                ![j].pc = IF rows = <<>> THEN "emit" ELSE "insert"]
        /\ Goes
     \/ Catch(j)
  /\ UNCHANGED << configVars, queueVars, sub, ret, acquired, dbVars, now, sweep >>

\* One round of the loop: INSERT INTO "<tableName>" ... VALUES ($1) with the
\* value passed through String().  It fails when the table is gone or the
\* text is no input of the column's type.
InsertRow(j) ==
  /\ job[j].pc = "insert"
  /\ \/ /\ job[j].tableName \in DOMAIN catalog
        /\ LET table == catalog[job[j].tableName]
               stored == CastText(table.columnType, String(job[j].rows[job[j].idx + 1]))
           IN /\ stored.kind # "error"
              /\ catalog' = [catalog EXCEPT ![job[j].tableName].rows = Append(@, stored)]
        /\ job' = [job EXCEPT ![j].idx = @ + 1,
                              ![j].pc = IF job[j].idx + 1 = Len(job[j].rows)
                                        THEN "emit" ELSE "insert"]
        /\ Goes
     \/ /\ Catch(j)
        /\ UNCHANGED catalog
  /\ UNCHANGED << configVars, queueVars, sub, ret, acquired, metaTable, metadata, now, sweep >>

\* this.emit(job-completed, {jobId, tableName}); return {tableName}.  A
\* listener that throws makes emit throw inside the try block, so the catch
\* block runs.  Bull drops the completed entry (removeOnComplete: true).
EmitCompleted(j) ==
  /\ job[j].pc = "emit"
  /\ \/ /\ events' = [events EXCEPT ![j] = Append(@, Event("completed", job[j].tableName))]
        /\ Ended(j, "completed")
     \/ /\ events' = [events EXCEPT ![j] =
                        @ \o << Event("completed", job[j].tableName), Event("failed", <<>>) >>]
        /\ Ended(j, "failed")
  /\ Release(j)
  /\ UNCHANGED << configVars, queueVars, sub, ret, acquired, dbVars, now, sweep >>

\* --------------------------------------------------------------- sweeper
\* A mutant of the comparison: <= for <.
ExpiredInclusive(j) == metadata[j].created_at <= now - tableTTLHours

\* created_at < NOW() - INTERVAL '<tableTTLHours> hour'
Expired(j) == metadata[j].created_at < now - tableTTLHours

ExpiredJobs == {j \in DOMAIN metadata : Expired(j)}

\* The orders in which a SELECT without ORDER BY can return the given rows.
Orderings(S) ==
  {f \in [1..Cardinality(S) -> S] : \A a, b \in DOMAIN f : a # b => f[a] # f[b]}

\* The interval timer fires: cleanupOldTables starts and gets its client.
SweepStart(k) ==
  /\ cleanupTimer
  /\ poolState = "open"
  /\ sweep[k].pc = "idle"
  /\ sweep' = [sweep EXCEPT ![k] = [IdleSweep EXCEPT !.pc = "select"]]
  /\ UNCHANGED << configVars, queueVars, sub, ret, job, clientVars, events, dbVars, now >>

\* The SELECT of the expired rows.  It fails when job_metadata does not
\* exist; the error leaves cleanupOldTables through finally and is logged.
SweepSelect(k) ==
  /\ sweep[k].pc = "select"
  /\ \/ /\ metaTable
        /\ \E order \in Orderings(ExpiredJobs) :
             sweep' = [sweep EXCEPT ![k].rows =
                           [i \in DOMAIN order |->
                              [job_id |-> order[i], table_name |-> metadata[order[i]].table_name]],
                         ![k].idx = 1,
                         ![k].pc = IF order = <<>> THEN "release" ELSE "drop"]
     \/ sweep' = [sweep EXCEPT ![k] = IdleSweep]
  /\ UNCHANGED << configVars, queueVars, sub, ret, job, clientVars, events, dbVars, now >>

\* The loop moves to the next selected row, or ends.
NextRow(k, ok) ==
  sweep' = [sweep EXCEPT ![k].idx = @ + 1,
                         ![k].ok = ok,
                         ![k].pc = IF sweep[k].idx = Len(sweep[k].rows)
                                   THEN "release" ELSE "drop"]

\* A mutant of the inner catch block: the error leaves the loop.
RethrowDropError(k) == sweep' = [sweep EXCEPT ![k].pc = "release"]

\* A mutant of the inner try block: the DROP has a catch of its own, and the
\* DELETE follows whatever the DROP did.
DeleteAfterDropError(k) == sweep' = [sweep EXCEPT ![k].pc = "delete"]

\* catch (dropError) { console.error(...) }: the loop goes on with the next row.
CatchDropError(k) == NextRow(k, sweep[k].ok)

\* A mutant of the statement: DROP TABLE without IF EXISTS, which the
\* database refuses for a table that is not there.
DropOnlyExisting(name) == name \in DOMAIN catalog

\* DROP TABLE IF EXISTS: the database takes the statement whether or not the
\* table is there.
DropAccepted(name) == TRUE

\* DROP TABLE IF EXISTS "<table_name>" goes through; the DELETE is next.
DropTable(k) ==
  /\ sweep[k].pc = "drop"
  /\ DropAccepted(sweep[k].rows[sweep[k].idx].table_name)
  /\ catalog' = WithoutTable(catalog, sweep[k].rows[sweep[k].idx].table_name)
  /\ sweep' = [sweep EXCEPT ![k].pc = "delete"]
  /\ UNCHANGED << configVars, queueVars, sub, ret, job, clientVars, events, metaTable, metadata, now >>

\* The DROP throws: the error is caught and logged, and the DELETE of that
\* row is skipped.
DropError(k) ==
  /\ sweep[k].pc = "drop"
  /\ CatchDropError(k)
  /\ UNCHANGED << configVars, queueVars, sub, ret, job, clientVars, events, dbVars, now >>

SweepDrop(k) == DropTable(k) \/ DropError(k)

\* A mutant of the DELETE: the row is left in place.
DeleteNothing(jobId) == metadata

\* DELETE FROM job_metadata WHERE job_id = $1: the rows left.
DeleteMetadata(jobId) == [n \in DOMAIN metadata \ {jobId} |-> metadata[n]]

\* A mutant of the DELETE step: a DELETE that finds no row counts as an
\* error.
DeleteRowMustExist(k) ==
  /\ sweep[k].pc = "delete"
  /\ sweep[k].rows[sweep[k].idx].job_id \in DOMAIN metadata
  /\ metadata' = DeleteMetadata(sweep[k].rows[sweep[k].idx].job_id)
  /\ NextRow(k, sweep[k].ok \cup {sweep[k].rows[sweep[k].idx].job_id})
  /\ UNCHANGED << configVars, queueVars, sub, ret, job, clientVars, events, metaTable, catalog, now >>

\* The DELETE of the row just dropped goes through (with or without a row to
\* delete); the loop moves on.
DeleteRow(k) ==
  /\ sweep[k].pc = "delete"
  /\ metadata' = DeleteMetadata(sweep[k].rows[sweep[k].idx].job_id)
  /\ NextRow(k, sweep[k].ok \cup {sweep[k].rows[sweep[k].idx].job_id})
  /\ UNCHANGED << configVars, queueVars, sub, ret, job, clientVars, events, metaTable, catalog, now >>

\* The DELETE throws: the error is caught and logged.
DeleteError(k) ==
  /\ sweep[k].pc = "delete"
  /\ CatchDropError(k)
  /\ UNCHANGED << configVars, queueVars, sub, ret, job, clientVars, events, dbVars, now >>

SweepDelete(k) == DeleteRow(k) \/ DeleteError(k)

\* finally { client.release() }: the sweep is over.
SweepRelease(k) ==
  /\ sweep[k].pc = "release"
  /\ sweep' = [sweep EXCEPT ![k] = IdleSweep]
  /\ UNCHANGED << configVars, queueVars, sub, ret, job, clientVars, events, dbVars, now >>

\* -------------------------------------------------------------- shutdown
\* The handlers and sweeps that hold a client of the pool.
JobClients == {j \in JobNumbers : acquired[j] > released[j]}
SweepClients == {k \in AllSweepers : sweep[k].pc # "idle"}

\* await this.queryQueue.close() is over: Bull has waited for the handlers in
\* progress.  Then dbPool.end() is called, after which the pool hands out no
\* client; a second end() on the same pool is refused.  When close() rejects,
\* shutdown throws and the pool is left as it is.
ShutdownCloseQueue ==
  /\ shut.pc = "closeQueue"
  /\ \/ /\ Active = {}
        /\ queueState' = "closed"
        /\ IF poolState = "open"
           THEN poolState' = "ending" /\ shut' = [shut EXCEPT !.pc = "endPool"]
           ELSE UNCHANGED poolState /\ shut' = [pc |-> "idle", ret |-> "EndFailed"]
     \/ /\ shut' = [pc |-> "idle", ret |-> "CloseFailed"]
        /\ UNCHANGED << queueState, poolState >>
  /\ UNCHANGED << initialized, concurrency, maxQueueSize, tableTTLHours, cleanupTimer,
                  lastInit, created, queueVars, sub, ret, job, clientVars, events,
                  dbVars, now, sweep >>

\* await this.dbPool.end() is over: every client has been given back.
ShutdownEndPool ==
  /\ shut.pc = "endPool"
  /\ JobClients = {} /\ SweepClients = {}
  /\ poolState' = "ended"
  /\ shut' = [pc |-> "idle", ret |-> "ok"]
  /\ UNCHANGED << initialized, concurrency, maxQueueSize, tableTTLHours, cleanupTimer,
                  lastInit, created, queueState, queueVars, sub, ret, job, clientVars,
                  events, dbVars, now, sweep >>

\* ----------------------------------------------------------------- lookup
\* A mutant of the lookup: SELECT job_id for SELECT table_name.
LookupWrongColumn(j) ==
  IF poolState # "open" \/ ~metaTable THEN [kind |-> "error", table_name |-> <<>>]
  ELSE IF j \in DOMAIN metadata
  THEN [kind |-> "found", table_name |-> JobId[j]]
  ELSE [kind |-> "null", table_name |-> <<>>]

\* getTableNameForJob(jobId) for the id of job number j (generated or not),
\* answered in the current state of the database: one query, no state of its
\* own.  SELECT table_name FROM job_metadata WHERE job_id = $1 gives the first
\* row's table_name, null when there is no row, and an Error ('Error
\* retrieving table name') when the query fails: the pool hands out no
\* client, or the relation job_metadata does not exist.
getTableNameForJob(j) ==
  IF poolState # "open" \/ ~metaTable THEN [kind |-> "error", table_name |-> <<>>]
  ELSE IF j \in DOMAIN metadata
  THEN [kind |-> "found", table_name |-> metadata[j].table_name]
  ELSE [kind |-> "null", table_name |-> <<>>]

\* ------------------------------------------------------------------ clock
\* Time passes: the clock moves on by one unit (the unit of tableTTLHours).
Tick ==
  /\ now < MaxTime
  /\ now' = now + 1
  /\ UNCHANGED << configVars, queueVars, sub, ret, job, clientVars, events, dbVars, sweep >>

\* --------------------------------------------------------- specifications
Next ==
  \/ \E config \in Configs : InitializeOnce(config)
  \/ \E s \in Submitters, query \in SampleQueries : CreateQueryJobCount(s, query)
  \/ \E s \in Submitters : CreateQueryJobAdd(s)
  \/ \E j \in JobNumbers : Pickup(j)
  \/ \E j \in JobNumbers : Connect(j)
  \/ \E j \in JobNumbers : Probe(j)
  \/ \E j \in JobNumbers : EnsureMetadataTable(j)
  \/ \E j \in JobNumbers : CreateTable(j)
  \/ \E j \in JobNumbers : InsertMetadata(j)
  \/ \E j \in JobNumbers : Fetch(j)
  \/ \E j \in JobNumbers : InsertRow(j)
  \/ \E j \in JobNumbers : EmitCompleted(j)
  \/ \E k \in Sweepers : SweepStart(k)
  \/ \E k \in Sweepers : SweepSelect(k)
  \/ \E k \in Sweepers : SweepDrop(k)
  \/ \E k \in Sweepers : SweepDelete(k)
  \/ \E k \in Sweepers : SweepRelease(k)
  \/ Tick

Spec == Init /\ [][Next]_vars

\* Submission and execution only, over the whole set of queries: the sweeper
\* and the clock do not touch the queue, and nothing here reads tableTTLHours.
SubmitConfigs == {c \in Configs : c.tableTTLHours = 0}

NextSubmit ==
  \/ \E config \in SubmitConfigs : InitializeOnce(config)
  \/ \E s \in Submitters, query \in Queries : CreateQueryJobCount(s, query)
  \/ \E s \in Submitters : CreateQueryJobAdd(s)
  \/ \E j \in JobNumbers : Pickup(j)
  \/ \E j \in JobNumbers : Connect(j)
  \/ \E j \in JobNumbers : Probe(j)
  \/ \E j \in JobNumbers : EnsureMetadataTable(j)
  \/ \E j \in JobNumbers : CreateTable(j)
  \/ \E j \in JobNumbers : InsertMetadata(j)
  \/ \E j \in JobNumbers : Fetch(j)
  \/ \E j \in JobNumbers : InsertRow(j)
  \/ \E j \in JobNumbers : EmitCompleted(j)

SpecSubmit == Init /\ [][NextSubmit]_vars

\* The whole life of the instance: initialize called at any time, shutdown,
\* submission, execution, sweeps and the clock.
NextLifecycle ==
  \/ \E config \in Configs : Initialize(config)
  \/ ShutdownStart
  \/ ShutdownCloseQueue
  \/ ShutdownEndPool
  \/ \E s \in Submitters, query \in SampleQueries : CreateQueryJobCount(s, query)
  \/ \E s \in Submitters : CreateQueryJobAddLifecycle(s)
  \/ \E j \in JobNumbers : Pickup(j)
  \/ \E j \in JobNumbers : Connect(j)
  \/ \E j \in JobNumbers : Probe(j)
  \/ \E j \in JobNumbers : EnsureMetadataTable(j)
  \/ \E j \in JobNumbers : CreateTable(j)
  \/ \E j \in JobNumbers : InsertMetadata(j)
  \/ \E j \in JobNumbers : Fetch(j)
  \/ \E j \in JobNumbers : InsertRow(j)
  \/ \E j \in JobNumbers : EmitCompleted(j)
  \/ \E k \in Sweepers : SweepStart(k)
  \/ \E k \in Sweepers : SweepSelect(k)
  \/ \E k \in Sweepers : SweepDrop(k)
  \/ \E k \in Sweepers : SweepDelete(k)
  \/ \E k \in Sweepers : SweepRelease(k)
  \/ Tick

SpecLifecycle == Init /\ [][NextLifecycle]_vars

\* Calls of createQueryJob in flight together, and the handlers taking the
\* jobs they enqueue off the wait list.
NextRace ==
  \/ \E config \in SubmitConfigs : InitializeOnce(config)
  \/ \E s \in Callers, query \in SampleQueries : CreateQueryJobCount(s, query)
  \/ \E s \in Callers : CreateQueryJobAddRace(s)
  \/ \E j \in JobNumbers : Pickup(j)
  \/ \E j \in JobNumbers : Connect(j)
  \/ \E j \in JobNumbers : Probe(j)

SpecRace == Init /\ [][NextRace]_vars

\* The native type ids (pg_type oids) a probed column can have: bool, bytea,
\* char, int8, int2, int4, text, json, float4, float8, varchar, date, time,
\* timestamp, timestamptz, numeric, uuid, jsonb, and an id no type has.
NativeTypeIds ==
  {16, 17, 18, 20, 21, 23, 25, 114, 700, 701, 1043, 1082, 1083, 1114, 1184, 1700,
   2950, 3802, 0}

ProbeNative(j) == ProbeWith(j, NativeTypeIds)

\* Submission and execution up to the creation of the result table, the
\* probed column having any native type.
NextMapper ==
  \/ \E config \in SubmitConfigs : InitializeOnce(config)
  \/ \E s \in Submitters, query \in SampleQueries : CreateQueryJobCount(s, query)
  \/ \E s \in Submitters : CreateQueryJobAdd(s)
  \/ \E j \in JobNumbers : Pickup(j)
  \/ \E j \in JobNumbers : Connect(j)
  \/ \E j \in JobNumbers : ProbeNative(j)
  \/ \E j \in JobNumbers : EnsureMetadataTable(j)
  \/ \E j \in JobNumbers : CreateTable(j)

SpecMapper == Init /\ [][NextMapper]_vars

\* Submission and execution, every step that can be taken being taken in the
\* end: Bull's processor takes the next waiting entry whenever a slot is
\* free, and the event loop runs a handler on when the promise it awaits is
\* settled, the database answering every statement or refusing it.
NextWorker ==
  \/ \E config \in SubmitConfigs : InitializeOnce(config)
  \/ \E s \in Submitters, query \in SampleQueries : CreateQueryJobCount(s, query)
  \/ \E s \in Submitters : CreateQueryJobAdd(s)
  \/ \E j \in JobNumbers : Pickup(j)
  \/ \E j \in JobNumbers : Connect(j)
  \/ \E j \in JobNumbers : Probe(j)
  \/ \E j \in JobNumbers : EnsureMetadataTable(j)
  \/ \E j \in JobNumbers : CreateTable(j)
  \/ \E j \in JobNumbers : InsertMetadata(j)
  \/ \E j \in JobNumbers : Fetch(j)
  \/ \E j \in JobNumbers : InsertRow(j)
  \/ \E j \in JobNumbers : EmitCompleted(j)

WorkerFairness ==
  \A j \in JobNumbers :
    /\ WF_vars(Pickup(j))
    /\ WF_vars(Connect(j))
    /\ WF_vars(Probe(j))
    /\ WF_vars(EnsureMetadataTable(j))
    /\ WF_vars(CreateTable(j))
    /\ WF_vars(InsertMetadata(j))
    /\ WF_vars(Fetch(j))
    /\ WF_vars(InsertRow(j))
    /\ WF_vars(EmitCompleted(j))

SpecWorker == Init /\ [][NextWorker]_vars /\ WorkerFairness

\* Sweeps that overlap: the timer fires again while a sweep is in progress.
SweepConfigs == {c \in Configs : c.tableTTLHours = 0 /\ c.concurrency = 1}

\* The queries submitted there: those createQueryJob admits.
AdmittedQueries == {q \in SampleQueries : Validation[q] = "valid"}

NextSweeps ==
  \/ \E config \in SweepConfigs : InitializeOnce(config)
  \/ \E s \in Submitters, query \in AdmittedQueries : CreateQueryJobCount(s, query)
  \/ \E s \in Submitters : CreateQueryJobAdd(s)
  \/ \E j \in JobNumbers : Pickup(j)
  \/ \E j \in JobNumbers : Connect(j)
  \/ \E j \in JobNumbers : Probe(j)
  \/ \E j \in JobNumbers : EnsureMetadataTable(j)
  \/ \E j \in JobNumbers : CreateTable(j)
  \/ \E j \in JobNumbers : InsertMetadata(j)
  \/ \E j \in JobNumbers : Fetch(j)
  \/ \E j \in JobNumbers : InsertRow(j)
  \/ \E j \in JobNumbers : EmitCompleted(j)
  \/ \E k \in OverlappingSweepers : SweepStart(k)
  \/ \E k \in OverlappingSweepers : SweepSelect(k)
  \/ \E k \in OverlappingSweepers : SweepDrop(k)
  \/ \E k \in OverlappingSweepers : SweepDelete(k)
  \/ \E k \in OverlappingSweepers : SweepRelease(k)
  \/ Tick

SpecSweeps == Init /\ [][NextSweeps]_vars

\* ================================================================ claims
Terminal(j) == job[j].pc \in {"completed", "failed"}
HasEvent(j, type) == \E i \in DOMAIN events[j] : events[j][i].type = type

\* The step in which a createQueryJob call of s returns (or throws).
CallEnds(s) == sub[s].pc = "counted" /\ sub'[s].pc = "idle"
NothingEnqueued == waiting' = waiting /\ nextJob' = nextJob /\ job' = job

\* C1: every job a worker picked up gets exactly one terminal event over the
\* whole run: never two, and one once its handler is over.
C1_ExactlyOneTerminalEvent ==
  \A j \in JobNumbers :
    /\ Len(events[j]) <= 1
    /\ Terminal(j) => Len(events[j]) = 1

BeginsWithSelect(q) == startsWith(toUpperCase(trim(q)), SelectPrefix)
ContainsSemicolon(q) == ";" \in Range(q)
\* The whole words of q: its maximal runs of word characters.
IsWholeWord(q, a, b) ==
  /\ a <= b
  /\ \A i \in a..b : IsWordChar(q[i])
  /\ (a = 1 \/ ~IsWordChar(q[a - 1]))
  /\ (b = Len(q) \/ ~IsWordChar(q[b + 1]))
WordsOf(q) ==
  { SubSeq(q, p[1], p[2]) :
      p \in { x \in (DOMAIN q) \X (DOMAIN q) : IsWholeWord(q, x[1], x[2]) } }
ContainsForbiddenWord(q) == \E w \in WordsOf(q) : toUpperCase(w) \in ForbiddenWords

AllQueries == Queries \cup SampleQueries
NotSelectQueries == {q \in AllQueries : ~BeginsWithSelect(q)}
SemicolonQueries == {q \in AllQueries : ContainsSemicolon(q)}
ForbiddenWordQueries == {q \in AllQueries : ContainsForbiddenWord(q)}

\* C3: a query that does not begin with 'SELECT ' fails with the not-a-SELECT
\* error and enqueues nothing, in every state of the queue.
C3_NotSelectRejectedAlways ==
  [][\A s \in Submitters :
       (CallEnds(s) /\ sub[s].query \in NotSelectQueries)
         => (ret'[s] = "NotSelect" /\ NothingEnqueued)
    ]_vars

C5_ForbiddenWordRejected ==
  [][\A s \in Submitters :
       CallEnds(s) =>
         IF sub[s].query \in ForbiddenWordQueries
         THEN ret'[s] \in {"QueueFull", "NotSelect", "Semicolon", "Forbidden"}
              /\ NothingEnqueued
         ELSE ret'[s] # "Forbidden"
    ]_vars

C5_Witness ==
  \E s \in Submitters : ret[s] = "Forbidden" /\ sub[s].pc = "idle"

\* C6 as stated: a job whose execution failed (its first event is the
\* failure event) never gets a completion event and has no job_metadata row.
C6_FailureLeavesNothing ==
  \A j \in JobNumbers :
    (events[j] # <<>> /\ events[j][1].type = "failed")
      => (Len(events[j]) = 1 /\ j \notin DOMAIN metadata)

\* C7 as stated: when the completion event is about to be raised, the result
\* table it names exists and holds exactly the rows the data fetch returned,
\* every one of them inserted.
C7_CompletionMaterialized ==
  \A j \in JobNumbers :
    job[j].pc = "emit" =>
      /\ job[j].idx = Len(job[j].rows)
      /\ job[j].tableName \in DOMAIN catalog
      /\ catalog[job[j].tableName].rows = job[j].rows

\* C8: while the job_metadata row of a job that raised its completion event
\* is still there, getTableNameForJob returns the table name the event carried.
C8_LookupMatchesEvent ==
  \A j \in JobNumbers : \A i \in DOMAIN events[j] :
    (events[j][i].type = "completed" /\ j \in DOMAIN metadata)
      => getTableNameForJob(j) = [kind |-> "found", table_name |-> events[j][i].tableName]

C8_Witness ==
  \E j \in JobNumbers :
    /\ HasEvent(j, "completed")
    /\ j \in DOMAIN metadata
    /\ getTableNameForJob(j).kind = "found"

\* C9 as stated: on an initialized instance, getTableNameForJob of an id with
\* no job_metadata row returns null and raises no error.
C9_UnknownIdIsNull ==
  initialized =>
    \A j \in JobNumbers : j \notin DOMAIN metadata => getTableNameForJob(j).kind = "null"

\* C10: a sweep selects every row older than the TTL, and when it has
\* finished, the rows whose drop and delete succeeded are gone from
\* job_metadata and their tables from the catalog.
C10_ExpiredRowsRemoved ==
  [][\A k \in Sweepers :
       /\ (sweep[k].pc = "select" /\ sweep'[k].pc \in {"drop", "release"}) =>
            \A j \in DOMAIN metadata :
              (metadata[j].created_at + tableTTLHours < now) =>
                \E i \in DOMAIN sweep'[k].rows :
                  sweep'[k].rows[i] = [job_id |-> j, table_name |-> metadata[j].table_name]
       /\ sweep'[k].pc = "release" =>
            \A i \in DOMAIN sweep'[k].rows :
              sweep'[k].rows[i].job_id \in sweep'[k].ok =>
                /\ sweep'[k].rows[i].job_id \notin DOMAIN metadata'
                /\ sweep'[k].rows[i].table_name \notin DOMAIN catalog'
    ]_vars

C10_Witness ==
  \E k \in Sweepers : sweep[k].pc = "release" /\ sweep[k].ok # {}

\* The job ids of the rows a sweep record holds.
SelectedIds(sw) == {sw.rows[i].job_id : i \in DOMAIN sw.rows}
OlderThanTTL(j) == metadata[j].created_at + tableTTLHours < now

\* C11: a sweep selects only rows older than the TTL at its SELECT, and no
\* step of the sweep changes a job_metadata row it did not select or the
\* result table such a row names: both are there after the step as before.
C11_UnexpiredSurvive ==
  [][\A k \in Sweepers :
       /\ (sweep[k].pc = "select" /\ sweep'[k].pc \in {"drop", "release"}) =>
            \A j \in SelectedIds(sweep'[k]) : j \in DOMAIN metadata /\ OlderThanTTL(j)
       /\ sweep'[k] # sweep[k] =>
            \A j \in DOMAIN metadata \ (SelectedIds(sweep[k]) \cup SelectedIds(sweep'[k])) :
              /\ j \in DOMAIN metadata'
              /\ metadata'[j] = metadata[j]
              /\ metadata[j].table_name \in DOMAIN catalog =>
                   /\ metadata[j].table_name \in DOMAIN catalog'
                   /\ catalog'[metadata[j].table_name] = catalog[metadata[j].table_name]
    ]_vars

\* A sweep that removed an expired row has ended its loop while a row that
\* was not older than the TTL, and its table, are still there.
C11_Witness ==
  \E k \in Sweepers :
    /\ sweep[k].pc = "release"
    /\ sweep[k].ok # {}
    /\ \E j \in DOMAIN metadata \ SelectedIds(sweep[k]) :
         ~OlderThanTTL(j) /\ metadata[j].table_name \in DOMAIN catalog

\* An identifier the database takes as it is: a lower-case letter or "_", then
\* lower-case letters, digits and "_", 63 characters at most.
IdentifierStart == Range(LowerCase) \cup {"_"}
IdentifierChars == Range(LowerCase) \cup Digits \cup {"_"}
ValidIdentifier(name) ==
  /\ name # <<>>
  /\ Len(name) <= 63
  /\ name[1] \in IdentifierStart
  /\ \A i \in DOMAIN name : name[i] \in IdentifierChars

\* Identifiers crypto.randomUUID can return, beyond those of the run.
UuidSamples == {randomUUID(n) : n \in 0..40}

DerivedNamesDistinct ==
  \A a, b \in UuidSamples :
    /\ a # b => tableNameFor(a) # tableNameFor(b)
    /\ ValidIdentifier(tableNameFor(a))

\* C12: distinct job ids give distinct table names, each a valid identifier;
\* in every state the handlers in progress have pairwise distinct table
\* names, every result table is the table of exactly one job id, and no two
\* job_metadata rows name the same table.
C12_TableNamesDistinct ==
  /\ DerivedNamesDistinct
  /\ \A j1, j2 \in JobNumbers :
       (j1 # j2 /\ job[j1].tableName # <<>> /\ job[j2].tableName # <<>>)
         => job[j1].tableName # job[j2].tableName
  /\ \A j \in JobNumbers : job[j].tableName # <<>> => ValidIdentifier(job[j].tableName)
  /\ \A name \in DOMAIN catalog :
       /\ ValidIdentifier(name)
       /\ Cardinality({j \in JobNumbers : TableName[j] = name}) = 1
  /\ \A j1, j2 \in DOMAIN metadata :
       j1 # j2 => metadata[j1].table_name # metadata[j2].table_name

\* Two jobs have their result tables in the catalog at the same time.
C12_Witness ==
  /\ Cardinality(DOMAIN catalog) = 2
  /\ Cardinality(DOMAIN metadata) = 2

\* C13: a handler gets at most one client and gives it back exactly once:
\* while it runs between connect and its end it holds the client, and once
\* it has returned or thrown every client it got is released, so finished
\* jobs hold no connection.
C13_ClientReleasedOnce ==
  /\ \A j \in JobNumbers :
       /\ acquired[j] <= 1
       /\ released[j] <= acquired[j]
       /\ job[j].pc \in ClientPcs => (acquired[j] = 1 /\ released[j] = 0)
       /\ Terminal(j) => released[j] = acquired[j]
  /\ Cardinality({j \in JobClients : Terminal(j)}) = 0

\* One job has completed and another has failed after it got its client; both
\* clients are back in the pool.
C13_Witness ==
  \E j1, j2 \in JobNumbers :
    /\ job[j1].pc = "completed" /\ released[j1] = 1
    /\ job[j2].pc = "failed" /\ released[j2] = 1 /\ HasEvent(j2, "failed")

\* C14: an error of a DROP or DELETE does not end the sweep: when the loop of
\* a sweep is over every selected row has been attempted; a step of the loop
\* emits no event, touches no job and leaves the timer set, and the sweep
\* that ends leaves the sweeper ready for the next firing of the timer.
C14_RowFailureContinues ==
  [][\A k \in Sweepers :
       /\ (sweep[k].pc # "release" /\ sweep'[k].pc = "release") =>
            sweep'[k].idx = Len(sweep'[k].rows) + 1
       /\ (sweep[k].pc \in {"drop", "delete"} /\ sweep'[k] # sweep[k]) =>
            /\ sweep'[k].rows = sweep[k].rows
            /\ sweep'[k].pc \in {"drop", "delete", "release"}
            /\ events' = events /\ job' = job /\ ret' = ret
            /\ cleanupTimer' = cleanupTimer
       /\ (sweep[k].pc = "release" /\ sweep'[k] # sweep[k]) =>
            (sweep'[k] = IdleSweep /\ cleanupTimer' = cleanupTimer /\ cleanupTimer)
    ]_vars

\* A sweep over two rows is at the end of its loop: the first row failed
\* (drop or delete) and the second was removed all the same.
C14_Witness ==
  \E k \in Sweepers :
    /\ sweep[k].pc = "release"
    /\ Len(sweep[k].rows) = 2
    /\ sweep[k].rows[1].job_id \notin sweep[k].ok
    /\ sweep[k].rows[2].job_id \in sweep[k].ok
    /\ sweep[k].rows[2].job_id \notin DOMAIN metadata

\* C15: a call of initialize on an instance already initialized, shut down or
\* not, throws the 'already initialized' error and changes neither the
\* limits nor the pool, the queue or the timer; one pool, one queue, one
\* processor and one timer at most are ever created.
C15_ReinitializeRejected ==
  [][/\ (initialized /\ lastInit' # lastInit) =>
          /\ lastInit' = "AlreadyInitialized"
          /\ UNCHANGED << initialized, concurrency, maxQueueSize, tableTTLHours,
                          cleanupTimer, created, queueState, poolState >>
     /\ created'.pools <= 1 /\ created'.queues <= 1
     /\ created'.processors <= 1 /\ created'.timers <= 1
    ]_vars

\* initialize was refused on an instance that was initialized and shut down.
C15_Witness ==
  /\ lastInit = "AlreadyInitialized"
  /\ poolState = "ended"
  /\ created = [pools |-> 1, queues |-> 1, processors |-> 1, timers |-> 1]

\* The timer was set by initialize and has been cleared by shutdown.
TimerStopped == initialized /\ ~cleanupTimer

\* C16: shutdown clears the timer, then closes the queue, then ends the pool:
\* the queue is closing or closed only with the timer cleared, the pool is
\* ending or ended only with the queue closed and the timer cleared, a job is
\* handed to a handler only while the queue is open, and once the timer is
\* cleared it stays cleared and no sweep starts.
C16_ShutdownOrder ==
  [][/\ queueState' \in {"closing", "closed"} => ~cleanupTimer'
     /\ poolState' \in {"ending", "ended"} => (queueState' = "closed" /\ ~cleanupTimer')
     /\ \A j \in JobNumbers :
          (job[j].pc = "waiting" /\ job'[j].pc # "waiting") => queueState = "open"
     /\ TimerStopped =>
          /\ ~cleanupTimer'
          /\ \A k \in Sweepers : sweep[k].pc = "idle" => sweep'[k].pc = "idle"
    ]_vars

\* shutdown has run to its end.
C16_Witness ==
  /\ shut = [pc |-> "idle", ret |-> "ok"]
  /\ TimerStopped
  /\ queueState = "closed"
  /\ poolState = "ended"

\* The claim's table of the mapper, the floating-point family being mapped to
\* the given column type.
ClaimedColumnType(id, floating) ==
  IF id = 20 \/ id = 21 \/ id = 23 THEN "INTEGER"
  ELSE IF id = 700 \/ id = 701 THEN floating
  ELSE IF id = 1700 THEN "NUMERIC"
  ELSE IF id = 16 THEN "BOOLEAN"
  ELSE IF id = 1082 THEN "DATE"
  ELSE IF id = 1114 \/ id = 1184 THEN "TIMESTAMP"
  ELSE IF id = 114 \/ id = 3802 THEN "JSONB"
  ELSE "TEXT"

\* The result table of every handler that has created it has the column type
\* the table gives for the probed type id.
CreatedAsClaimed(floating) ==
  \A j \in JobNumbers :
    job[j].pc = "insertMeta" =>
      /\ job[j].tableName \in DOMAIN catalog
      /\ catalog[job[j].tableName].columnType = ClaimedColumnType(job[j].typeId, floating)

\* C17 as stated: ids 700 and 701 are mapped to DOUBLE.
C17_MapperAsStated == CreatedAsClaimed("DOUBLE")

\* C17 amended: the mapper gives every native type id one column type:
\* INTEGER for 20, 21, 23; DOUBLE PRECISION for 700, 701; NUMERIC for 1700;
\* BOOLEAN for 16; DATE for 1082; TIMESTAMP for 1114, 1184; JSONB for 114,
\* 3802; TEXT for every other id.
C17_MapperTable ==
  /\ CreatedAsClaimed("DOUBLE PRECISION")
  /\ \A id \in NativeTypeIds :
       mapPostgresType(id) = ClaimedColumnType(id, "DOUBLE PRECISION")

\* A result table was created for a probed column of a floating-point type.
C17_Witness ==
  \E j \in JobNumbers :
    /\ job[j].pc = "insertMeta"
    /\ job[j].typeId \in {700, 701}
    /\ catalog[job[j].tableName].columnType = "DOUBLE PRECISION"

ValidationErrors == {"NotSelect", "Semicolon", "Forbidden"}

C19_SoftAdmissionBound ==
  [][/\ initialized' => Len(waiting') <= maxQueueSize' + NumCallers - 1
     /\ \A s \in Callers :
          (CallEnds(s) /\ ret'[s] = "ok" /\ ~sub[s].overlapped)
            => Len(waiting') <= maxQueueSize
    ]_vars

\* Two calls raced: both read a count below maxQueueSize, both enqueued, and
\* the wait list is longer than maxQueueSize.
C19_Witness ==
  /\ initialized
  /\ Len(waiting) > maxQueueSize
  /\ \A s \in Callers : ret[s] = "ok"

\* The clients checked out of the pool: one per handler between its connect
\* and its release, one per sweep in progress.
CheckedOut == Cardinality(JobClients) + Cardinality(SweepClients)

Fails(j) == job[j].pc \in ActivePcs /\ job'[j].pc = "failed"

Rank(pc) ==
  CASE pc = "none" -> 0 [] pc = "waiting" -> 1 [] pc = "connect" -> 2
    [] pc = "probe" -> 3 [] pc = "ensureMeta" -> 4 [] pc = "createTable" -> 5
    [] pc = "insertMeta" -> 6 [] pc = "fetch" -> 7 [] pc = "insert" -> 8
    [] pc = "emit" -> 9 [] pc = "completed" -> 10 [] pc = "failed" -> 10

\* C22: a job is run once at most: it never goes back to an earlier position,
\* its handler connects once at most, its entry is on the wait list once at
\* most and never again after it was picked up, and once it has completed or
\* failed nothing changes it or its events any more.
C22_ExecutedAtMostOnce ==
  [][\A j \in JobNumbers :
       /\ Rank(job'[j].pc) >= Rank(job[j].pc)
       /\ acquired'[j] <= 1
       /\ Cardinality({i \in DOMAIN waiting' : waiting'[i] = j})
            = (IF job'[j].pc = "waiting" THEN 1 ELSE 0)
       /\ Terminal(j) => (job'[j] = job[j] /\ events'[j] = events[j])
    ]_vars

\* A job has failed after it got its client and is kept as failed; the clock
\* is at its end, no handler runs and the wait list is empty.
C22_Witness ==
  \E j \in JobNumbers :
    /\ job[j].pc = "failed" /\ acquired[j] = 1 /\ released[j] = 1
    /\ Active = {} /\ waiting = <<>>
    /\ now = MaxTime

\* The positions a job can move to from a position.
Successors(pc) ==
  CASE pc = "none" -> {"waiting"}
    [] pc = "waiting" -> {"connect"}
    [] pc = "connect" -> {"probe", "failed"}
    [] pc = "probe" -> {"ensureMeta", "failed"}
    [] pc = "ensureMeta" -> {"createTable", "failed"}
    [] pc = "createTable" -> {"insertMeta", "failed"}
    [] pc = "insertMeta" -> {"fetch", "failed"}
    [] pc = "fetch" -> {"insert", "emit", "failed"}
    [] pc = "insert" -> {"insert", "emit", "failed"}
    [] pc = "emit" -> {"completed", "failed"}
    [] OTHER -> {}

HasTable(cat, j) == TableName[j] \in DOMAIN cat
StoredRows(cat, j) == IF HasTable(cat, j) THEN Len(cat[TableName[j]].rows) ELSE 0
Moves(j, from, to) == job[j].pc = from /\ job'[j].pc = to

\* C23: a job goes through probe, create, register, fetch, insert and notify
\* one after the other or fails; its table appears in the create step only,
\* its job_metadata row in the register step only, rows are stored in its
\* insert steps only, the completion event is raised in the notify step
\* only; before the create step is over there is neither table nor row, and
\* a failed step is followed by no other (a failed probe changes nothing in
\* the database).
C23_StepsInOrder ==
  [][\A j \in JobNumbers :
       /\ job'[j].pc # job[j].pc => job'[j].pc \in Successors(job[j].pc)
       /\ (~HasTable(catalog, j) /\ HasTable(catalog', j)) => Moves(j, "createTable", "insertMeta")
       /\ (j \notin DOMAIN metadata /\ j \in DOMAIN metadata') => Moves(j, "insertMeta", "fetch")
       /\ StoredRows(catalog', j) > StoredRows(catalog, j) =>
            (job[j].pc = "insert" /\ job'[j].pc \in {"insert", "emit"}
             /\ StoredRows(catalog', j) = StoredRows(catalog, j) + 1)
       /\ (~HasEvent(j, "completed") /\ Len(events'[j]) > Len(events[j])
            /\ events'[j][Len(events[j]) + 1].type = "completed") => job[j].pc = "emit"
       /\ job'[j].pc \in {"waiting", "connect", "probe", "ensureMeta", "createTable"} =>
            (~HasTable(catalog', j) /\ j \notin DOMAIN metadata')
       /\ job'[j].pc = "insertMeta" => (HasTable(catalog', j) /\ j \notin DOMAIN metadata')
       /\ job'[j].pc = "fetch" => StoredRows(catalog', j) = 0
       /\ Moves(j, "probe", "failed") => UNCHANGED << metaTable, metadata, catalog >>
    ]_vars

\* A job has failed at its probe (or at the job_metadata check that follows):
\* the failure event is raised and the database holds nothing of the job.
C23_Witness ==
  \E j \in JobNumbers :
    /\ job[j].pc = "failed" /\ released[j] = 1
    /\ events[j] = << Event("failed", <<>>) >>
    /\ ~HasTable(catalog, j) /\ j \notin DOMAIN metadata
    /\ ~metaTable

\* No handler holds a job and no sweep is between its start and its end.
Quiescent == Active = {} /\ \A k \in AllSweepers : sweep[k].pc = "idle"

NamedByMetadata(name) == \E j \in DOMAIN metadata : metadata[j].table_name = name

\* C24: whenever no job and no sweep is mid-execution, a result table is in
\* the catalog if and only if a job_metadata row names it.
C24_TableIffMetadataRow ==
  Quiescent =>
    /\ \A name \in DOMAIN catalog : NamedByMetadata(name)
    /\ \A j \in DOMAIN metadata : metadata[j].table_name \in DOMAIN catalog

\* The job stopped between its CREATE TABLE and its job_metadata row: the
\* table is there and no row was registered.
Orphaned(j) == job[j].pc = "failed" /\ HasTable(catalog, j) /\ j \notin DOMAIN metadata

\* The row a sweep is at.
CurrentRow(k) == sweep[k].rows[sweep[k].idx]

\* C25: a table leaves the catalog only by the DROP of a sweep for a row it
\* selected from job_metadata, and the rows a sweep selects are rows of
\* job_metadata; a table whose job failed before its row was registered is
\* in the catalog, unchanged and without a row, after every step.
C25_OrphanNeverDropped ==
  [][/\ \A name \in DOMAIN catalog \ DOMAIN catalog' :
          \E k \in AllSweepers :
            /\ sweep[k].pc = "drop" /\ sweep'[k].pc = "delete"
            /\ CurrentRow(k).table_name = name
     /\ \A k \in AllSweepers :
          (sweep[k].pc = "select" /\ sweep'[k].pc \in {"drop", "release"}) =>
            \A i \in DOMAIN sweep'[k].rows :
              /\ sweep'[k].rows[i].job_id \in DOMAIN metadata
              /\ sweep'[k].rows[i].table_name = metadata[sweep'[k].rows[i].job_id].table_name
     /\ \A j \in JobNumbers :
          Orphaned(j) =>
            /\ Orphaned(j)'
            /\ catalog'[TableName[j]] = catalog[TableName[j]]
            /\ \A k \in AllSweepers :
                 \A i \in DOMAIN sweep'[k].rows : sweep'[k].rows[i].table_name # TableName[j]
    ]_vars

\* A table without a row is still there at the end of a sweep that dropped
\* the table of another job, with the clock at its end.
C25_Witness ==
  \E j \in JobNumbers, k \in AllSweepers :
    /\ Orphaned(j)
    /\ sweep[k].pc = "release" /\ sweep[k].ok # {}
    /\ \A i \in sweep[k].ok : ~HasTable(catalog, i) /\ i \notin DOMAIN metadata
    /\ now = MaxTime

\* The sweep is at the DROP of a selected row whose table is not in the
\* catalog.
AtDropOfAbsentTable(k) ==
  sweep[k].pc = "drop" /\ CurrentRow(k).table_name \notin DOMAIN catalog

\* C26: at the DROP of a row whose table is already absent the statement can
\* go through; when it does the catalog is as before and the DELETE is next,
\* the DELETE can go through, and when it does the row is gone from
\* job_metadata and counted as removed by this sweep.
C26_DropIdempotent ==
  [][\A k \in AllSweepers :
       /\ AtDropOfAbsentTable(k) =>
            /\ ENABLED DropTable(k)
            /\ sweep'[k].pc = "delete" => (catalog' = catalog /\ metadata' = metadata)
       /\ sweep[k].pc = "delete" =>
            /\ ENABLED DeleteRow(k)
            /\ sweep'[k].ok # sweep[k].ok =>
                 /\ CurrentRow(k).job_id \notin DOMAIN metadata'
                 /\ sweep'[k].ok = sweep[k].ok \cup {CurrentRow(k).job_id}
                 /\ catalog' = catalog
    ]_vars

\* A row left behind by an earlier sweep (its table dropped, its DELETE
\* failed) has been selected again and the sweep is at its DROP.
C26_Witness ==
  \E k \in AllSweepers :
    /\ AtDropOfAbsentTable(k)
    /\ CurrentRow(k).job_id \in DOMAIN metadata
    /\ job[CurrentRow(k).job_id].pc = "completed"

\* The sweep leaves the DROP of a row for the next row (or for its end)
\* without going to the DELETE: the DROP has thrown.
DropFails(k) ==
  /\ sweep[k].pc = "drop"
  /\ sweep'[k].pc \in {"drop", "release"}
  /\ sweep'[k].idx = sweep[k].idx + 1

\* C27: a DROP that throws changes neither the catalog nor job_metadata and
\* the row is not counted as removed; a row leaves job_metadata only in the
\* DELETE of a sweep that selected it, after its table is gone; every selected
\* row still in job_metadata is past the TTL, so the next SELECT returns it.
C27_DropFailureKeepsRow ==
  [][/\ \A k \in AllSweepers :
          /\ DropFails(k) =>
               /\ catalog' = catalog /\ metadata' = metadata
               /\ sweep'[k].ok = sweep[k].ok
               /\ CurrentRow(k).job_id \notin sweep'[k].ok
          /\ \A j \in SelectedIds(sweep[k]) \cap DOMAIN metadata : Expired(j)
          /\ (sweep[k].pc = "select" /\ sweep'[k].pc \in {"drop", "release"}) =>
               SelectedIds(sweep'[k]) = ExpiredJobs
     /\ \A j \in DOMAIN metadata \ DOMAIN metadata' :
          /\ metadata[j].table_name \notin DOMAIN catalog'
          /\ \E k \in AllSweepers :
               sweep[k].pc = "delete" /\ CurrentRow(k).job_id = j /\ j \in sweep'[k].ok
    ]_vars

\* A sweep is over whose DROP of a selected row threw: the row is not among
\* the removed ones, and the table and the row are both there and expired.
C27_Witness ==
  \E k \in AllSweepers :
    /\ sweep[k].pc = "release"
    /\ \E j \in SelectedIds(sweep[k]) \ sweep[k].ok :
         /\ j \in DOMAIN metadata /\ Expired(j)
         /\ metadata[j].table_name \in DOMAIN catalog

\* The job has registered its job_metadata row and has raised neither of its
\* events yet.
RegisteredRunning(j) == job[j].pc \in {"fetch", "insert", "emit"}

\* C28: a job that has registered its row and has not raised its terminal
\* event has its result table in the catalog and its row in job_metadata.
C28_RunningJobKeepsTable ==
  \A j \in JobNumbers :
    RegisteredRunning(j) => (HasTable(catalog, j) /\ j \in DOMAIN metadata)

\* C29: with two sweeps running at once, the DROP and the DELETE of a sweep
\* can go through whatever the other sweep has removed, a step of one sweep
\* leaves the other where it was, a sweep ends only after the last of its
\* rows, and the rows a sweep got through are gone from the catalog and
\* from job_metadata, as after that sweep alone; nothing but the table and
\* the row a sweep is at is removed.
C29_OverlappingSweeps ==
  [][/\ \A k \in OverlappingSweepers :
          /\ sweep[k].pc = "drop" => ENABLED DropTable(k)
          /\ sweep[k].pc = "delete" => ENABLED DeleteRow(k)
          /\ (sweep[k].pc \in {"drop", "delete"} /\ sweep'[k].pc \notin {"drop", "delete"}) =>
               (sweep'[k].pc = "release" /\ sweep[k].idx = Len(sweep[k].rows))
          /\ sweep'[k] # sweep[k] =>
               \A o \in OverlappingSweepers \ {k} : sweep'[o] = sweep[o]
          /\ (sweep[k].pc = "drop" /\ sweep'[k].pc = "delete") =>
               (catalog' = WithoutTable(catalog, CurrentRow(k).table_name) /\ metadata' = metadata)
          /\ (sweep[k].pc = "delete" /\ sweep'[k].ok # sweep[k].ok) =>
               (metadata' = DeleteMetadata(CurrentRow(k).job_id) /\ catalog' = catalog)
          /\ \A j \in sweep'[k].ok : j \notin DOMAIN metadata' /\ ~HasTable(catalog', j)
     /\ \A name \in DOMAIN catalog \ DOMAIN catalog' :
          \E k \in OverlappingSweepers : sweep[k].pc = "drop" /\ CurrentRow(k).table_name = name
     /\ \A j \in DOMAIN metadata \ DOMAIN metadata' :
          \E k \in OverlappingSweepers : sweep[k].pc = "delete" /\ CurrentRow(k).job_id = j
    ]_vars

\* Two sweeps that selected the same two rows are both at their end, each
\* went through the DROP and the DELETE of every row, and the rows and their
\* tables are gone.
C29_Witness ==
  \E k1, k2 \in OverlappingSweepers :
    /\ k1 # k2
    /\ sweep[k1].pc = "release" /\ sweep[k2].pc = "release"
    /\ Len(sweep[k1].rows) = 2
    /\ SelectedIds(sweep[k1]) = SelectedIds(sweep[k2])
    /\ sweep[k1].ok = SelectedIds(sweep[k1]) /\ sweep[k2].ok = SelectedIds(sweep[k2])
    /\ \A j \in SelectedIds(sweep[k1]) : j \notin DOMAIN metadata /\ ~HasTable(catalog, j)

====
